---- MODULE Spec2Model ----
(***************************************************************************)
(* Image upload pipeline of next-page-builder.                             *)
(*                                                                         *)
(* Edge (Next.js API route): handler -> createFormDataMiddleware parses    *)
(* the multipart body into temp files, rebuilds a multipart payload, calls *)
(* the relay callback `next` (POST to the backend, read the JSON answer,   *)
(* answer the browser) and removes the temp files.                         *)
(*                                                                         *)
(* Backend (Express): multer's upload.array('images', 10) admits and       *)
(* stores the files, the route handler validates every stored file by its  *)
(* bytes and answers; the error-handling middleware answers when multer    *)
(* refuses the request.                                                    *)
(*                                                                         *)
(* The model follows one request at a time, from the browser through the   *)
(* edge to the backend and back or straight to the backend.  A stored      *)
(* file's generated name (uuid-timestamp+extension) is modelled as a fresh *)
(* token plus the extension; a temp file's path as its position in the     *)
(* parsed request.                                                         *)
(***************************************************************************)
EXTENDS Integers, Sequences, FiniteSets, TLC

VARIABLES
    variant,      \* which route handler serves the request
    epc,          \* position of the edge request
    reqParts,     \* file parts of the browser's multipart body
    parse,        \* outcome of form.parse(req)
    tmpFiles,     \* files returned by form.parse (temp files captured)
    parsedFiles,  \* req.parsedFiles
    formData,     \* req.body, the relay payload
    tmpDisk,      \* temp file paths present on the edge's disk
    nextCalls,    \* number of invocations of the relay callback
    relay,        \* outcome of the outbound POST as seen by the callback
    response,     \* the Response object fetch resolved with (0 or 1)
    edgeRes,      \* responses sent to the browser, in order
    unlinkLog,    \* temp file paths fs.unlinkSync was called on by the edge, in order
    bpc,          \* position of the backend request
    bReq,         \* file parts of the relayed multipart body
    files,        \* req.files as set by multer
    uploads,      \* stored filenames present in the uploads directory
    validFiles,   \* handler local
    invalidFiles, \* handler local
    bRes,         \* responses sent by the backend, in order
    \* the interleaved requests: one record of request-local state for each,
    \* the two directories they share, and what each created and unlinked
    reqs,         \* request id -> the locals of its edge and backend handling
    tmpDir,       \* temp file paths present on the edge's disk
    uploadsDir,   \* stored filenames present in the uploads directory
    nextTmp,      \* temp file names formidable has generated
    nextToken,    \* uuid-timestamp tokens storage.filename has generated
    created,      \* request id -> the temp paths and stored names written for it
    unlinkEvents  \* the fs.unlinkSync calls made, as [by, name], for each directory

edgeVars == <<variant, epc, reqParts, parse, tmpFiles, parsedFiles, formData,
              tmpDisk, nextCalls, relay, response, edgeRes, unlinkLog>>
backendVars == <<bpc, bReq, files, uploads, validFiles, invalidFiles, bRes>>
singleVars == <<edgeVars, backendVars>>
concVars == <<reqs, tmpDir, uploadsDir, nextTmp, nextToken, created, unlinkEvents>>
vars == <<variant, epc, reqParts, parse, tmpFiles, parsedFiles, formData,
          tmpDisk, nextCalls, relay, response, edgeRes, unlinkLog,
          bpc, bReq, files, uploads, validFiles, invalidFiles, bRes,
          reqs, tmpDir, uploadsDir, nextTmp, nextToken, created, unlinkEvents>>

---------------------------------------------------------------------------
(* Bounds and program constants *)

\* longest request whose parts are drawn freely
MaxFiles == 2

\* number of requests in flight together
NumReqs == 2

\* upload.array('images', 10)
MAX_COUNT == 10

\* limits.fileSize
FILE_SIZE_LIMIT == 5 * 1024 * 1024

PNG_SIGNATURE == <<137, 80, 78, 71, 13, 10, 26, 10>>

---------------------------------------------------------------------------
(* Pure helpers of the backend *)

\* a signature check that only looks at the four bytes "\x89PNG"
isPngByBytes_FirstFour(buffer) ==
    IF Len(buffer) < 4
    THEN FALSE
    ELSE SubSeq(buffer, 1, 4) = SubSeq(PNG_SIGNATURE, 1, 4)

isPngByBytes(buffer) ==
    IF Len(buffer) < Len(PNG_SIGNATURE)
    THEN FALSE
    ELSE SubSeq(buffer, 1, Len(PNG_SIGNATURE)) = PNG_SIGNATURE

\* path.extname on the original names the requests use
Extname(name) ==
    CASE name = "a.png" -> ".png"
      [] name = "b.jpg" -> ".jpg"
      [] name = "c.txt" -> ".txt"
      [] OTHER -> ""

\* String.prototype.startsWith('image/') on the declared types the requests use
StartsWithImage(mimetype) == mimetype \in {"image/png", "image/jpeg"}

\* Array.prototype.join(', ')
RECURSIVE Join(_)
Join(strs) ==
    IF Len(strs) = 0 THEN ""
    ELSE IF Len(strs) = 1 THEN strs[1]
    ELSE strs[1] \o ", " \o Join(Tail(strs))

JsonBody(success, message, hasFiles, fileData, hasError, error) ==
    [success |-> success, message |-> message, hasFiles |-> hasFiles,
     files |-> fileData, hasError |-> hasError, error |-> error]

Res(status, body) == [status |-> status, body |-> body]

---------------------------------------------------------------------------
(* Backend: multer configuration *)

NoError == [isMulterError |-> FALSE, code |-> "", message |-> ""]
MulterError(code, message) == [isMulterError |-> TRUE, code |-> code, message |-> message]
PlainError(message) == [isMulterError |-> FALSE, code |-> "", message |-> message]

\* fileFilter: TRUE when the file is let in
fileFilter(file) == StartsWithImage(file.mimetype)

\* storage.filename: `${uuidv4()}-${Date.now()}${path.extname(file.originalname)}`,
\* the uuid-timestamp pair being the fresh token
StorageFilename(file, token) == [token |-> token, ext |-> Extname(file.originalname)]

\* what multer does with the i-th file part of field 'images'
FileError(part, i) ==
    IF i > MAX_COUNT
    THEN MulterError("LIMIT_UNEXPECTED_FILE", "Unexpected field")
    ELSE IF ~fileFilter(part)
    THEN PlainError("Only image files are allowed!")
    ELSE IF part.size > FILE_SIZE_LIMIT
    THEN MulterError("LIMIT_FILE_SIZE", "File too large")
    ELSE NoError

\* upload.array with no maxCount: the count of parts is never looked at
AdmissionError_NoCount(parts) ==
    LET Bad(i) == ~fileFilter(parts[i]) \/ parts[i].size > FILE_SIZE_LIMIT
        bad == {i \in 1..Len(parts) : Bad(i)}
    IN  IF bad = {} THEN NoError
        ELSE LET first == CHOOSE i \in bad : \A j \in bad : i <= j
             IN  IF ~fileFilter(parts[first])
                 THEN PlainError("Only image files are allowed!")
                 ELSE MulterError("LIMIT_FILE_SIZE", "File too large")

\* upload.array('images', 10): the error of the first part multer refuses
AdmissionError(parts) ==
    LET bad == {i \in 1..Len(parts) : FileError(parts[i], i) # NoError}
    IN  IF bad = {} THEN NoError
        ELSE LET first == CHOOSE i \in bad : \A j \in bad : i <= j
             IN  FileError(parts[first], first)

\* the file object multer hands to the route handler
MulterFile(part, i) ==
    [originalname |-> part.originalname,
     mimetype     |-> part.mimetype,
     size         |-> part.size,
     bytes        |-> part.bytes,
     filename     |-> StorageFilename(part, i),
     path         |-> StorageFilename(part, i),
     readErr      |-> part.readErr,
     unlinkErr    |-> part.unlinkErr]

\* error handling middleware
ErrorMiddleware(error) ==
    IF error.isMulterError /\ error.code = "LIMIT_FILE_SIZE"
    THEN Res(400, JsonBody(FALSE, "File too large. Maximum size is 5MB.",
                           FALSE, <<>>, FALSE, ""))
    ELSE Res(500, JsonBody(FALSE,
                           IF error.message # "" THEN error.message
                           ELSE "Internal server error",
                           FALSE, <<>>, FALSE, ""))

---------------------------------------------------------------------------
(* Backend: the validation loop of app.post('/api/upload') *)

\* one iteration where every declared type has its bytes checked as PNG
ValidateOne_AllTypes(file, acc) ==
    IF file.readErr
    THEN [acc EXCEPT !.invalid = Append(@, file.originalname \o " - Validation error"),
                     !.disk = IF file.unlinkErr THEN @ ELSE @ \ {file.path}]
    ELSE IF isPngByBytes(file.bytes)
    THEN [acc EXCEPT !.valid = Append(@, file)]
    ELSE [acc EXCEPT !.invalid = Append(@, file.originalname \o " - Invalid PNG signature"),
                     !.disk = @ \ {file.path}]

\* one iteration that records the rejection but never unlinks the file
ValidateOne_KeepsRejected(file, acc) ==
    IF file.readErr
    THEN [acc EXCEPT !.invalid = Append(@, file.originalname \o " - Validation error")]
    ELSE IF file.mimetype = "image/png" /\ ~isPngByBytes(file.bytes)
    THEN [acc EXCEPT !.invalid = Append(@, file.originalname \o " - Invalid PNG signature")]
    ELSE [acc EXCEPT !.valid = Append(@, file)]

\* one iteration of `for (const file of files)`; acc holds validFiles,
\* invalidFiles and the uploads directory
ValidateOne(file, acc) ==
    IF file.readErr
    THEN \* fs.readFileSync throws: catch (fileError)
         [acc EXCEPT !.invalid = Append(@, file.originalname \o " - Validation error"),
                     !.disk = IF file.unlinkErr THEN @ ELSE @ \ {file.path}]
    ELSE IF file.mimetype = "image/png"
    THEN IF isPngByBytes(file.bytes)
         THEN [acc EXCEPT !.valid = Append(@, file)]
         ELSE IF file.unlinkErr
         THEN \* the push is followed by fs.unlinkSync, which throws into
              \* catch (fileError): a second push, a second failing unlink
              [acc EXCEPT !.invalid = @ \o <<file.originalname \o " - Invalid PNG signature",
                                             file.originalname \o " - Validation error">>]
         ELSE [acc EXCEPT !.invalid = Append(@, file.originalname \o " - Invalid PNG signature"),
                          !.disk = @ \ {file.path}]
    ELSE [acc EXCEPT !.valid = Append(@, file)]

RECURSIVE ValidateFrom(_, _, _)
ValidateFrom(fs, i, acc) ==
    IF i > Len(fs) THEN acc
    ELSE ValidateFrom(fs, i + 1, ValidateOne(fs[i], acc))

\* validFiles.map(file => ({...})); the ids are fresh uuids
FileData(valid, firstId) ==
    [j \in 1..Len(valid) |->
        [id           |-> firstId + j,
         originalName |-> valid[j].originalname,
         filename     |-> valid[j].filename,
         path         |-> valid[j].path,
         size         |-> valid[j].size,
         mimetype     |-> valid[j].mimetype,
         url          |-> <<"/uploads/", valid[j].filename>>]]

\* a response that lists every received file and is always a success
UploadResponse_AllFiles(received, valid, invalid) ==
    Res(200, JsonBody(TRUE, "Successfully uploaded", TRUE,
                      FileData(received, Len(received)), FALSE, ""))

\* the response built after the loop
UploadResponse(received, valid, invalid) ==
    IF Len(valid) = 0
    THEN Res(400, JsonBody(FALSE, "No valid files uploaded. All files failed validation.",
                           FALSE, <<>>, TRUE, Join(invalid)))
    ELSE Res(200, JsonBody(TRUE,
                           "Successfully uploaded " \o ToString(Len(valid)) \o " valid file(s)"
                           \o (IF Len(invalid) > 0
                               THEN ". " \o ToString(Len(invalid))
                                    \o " file(s) were rejected: " \o Join(invalid)
                               ELSE ""),
                           TRUE, FileData(valid, Len(received)), FALSE, ""))

---------------------------------------------------------------------------
(* The browser's requests *)

\* a file part of the browser's multipart body; readErr and unlinkErr tell
\* whether the backend's fs.readFileSync / fs.unlinkSync of the stored copy throw
Part(name, mimetype, bytes, size, readErr, unlinkErr) ==
    [originalFilename |-> name, mimetype |-> mimetype, bytes |-> bytes,
     size |-> size, readErr |-> readErr, unlinkErr |-> unlinkErr]

ZEROS == <<0, 0, 0, 0, 0, 0, 0, 0>>

\* the signature with its i-th byte changed
ChangedSignature(i) == [PNG_SIGNATURE EXCEPT ![i] = (@ + 1) % 256]

Contents ==
    {PNG_SIGNATURE, ZEROS, PNG_SIGNATURE \o <<0>>}
    \cup {ChangedSignature(i) : i \in 1..Len(PNG_SIGNATURE)}
    \cup {SubSeq(PNG_SIGNATURE, 1, n) : n \in 0..(Len(PNG_SIGNATURE) - 1)}

GoodPng == Part("a.png", "image/png", PNG_SIGNATURE, Len(PNG_SIGNATURE), FALSE, FALSE)
BadPng  == Part("a.png", "image/png", ZEROS, Len(ZEROS), FALSE, FALSE)
Jpeg    == Part("b.jpg", "image/jpeg", ZEROS, Len(ZEROS), FALSE, FALSE)

\* the parts the short requests are made of
SmallParts ==
    {GoodPng, BadPng, Jpeg,
     [BadPng EXCEPT !.unlinkErr = TRUE],
     [GoodPng EXCEPT !.readErr = TRUE],
     [BadPng EXCEPT !.readErr = TRUE, !.unlinkErr = TRUE],
     [Jpeg EXCEPT !.readErr = TRUE],
     Part("c.txt", "text/plain", ZEROS, Len(ZEROS), FALSE, FALSE),
     Part("", "", ZEROS, Len(ZEROS), FALSE, FALSE),
     [GoodPng EXCEPT !.size = FILE_SIZE_LIMIT + 1]}

SmallRequests == UNION {[1..n -> SmallParts] : n \in 0..MaxFiles}

\* one readable file of either image type with every content
ByteRequests ==
    {<<Part(IF m = "image/png" THEN "a.png" ELSE "b.jpg", m, c, Len(c), FALSE, u)>> :
        m \in {"image/png", "image/jpeg"}, c \in Contents, u \in BOOLEAN}

\* requests at and just over the count cap
CapRequests ==
    {[i \in 1..n |-> p] : n \in {MAX_COUNT, MAX_COUNT + 1}, p \in {GoodPng, BadPng, Jpeg}}

Requests == SmallRequests \cup ByteRequests \cup CapRequests

\* the requests a client sends to the backend itself, every part named and typed
DirectRequests ==
    {r \in Requests :
        \A i \in 1..Len(r) : r[i].originalFilename # "" /\ r[i].mimetype # ""}

\* the multipart body such a client sends
ClientBody(parts) ==
    [i \in 1..Len(parts) |->
        [fieldname    |-> "images",
         originalname |-> parts[i].originalFilename,
         mimetype     |-> parts[i].mimetype,
         bytes        |-> parts[i].bytes,
         size         |-> parts[i].size,
         readErr      |-> parts[i].readErr,
         unlinkErr    |-> parts[i].unlinkErr]]

Variants == {"catching", "propagating"}

---------------------------------------------------------------------------
(* Edge: createFormDataMiddleware and the route handlers *)

\* the formidable.File of the i-th part
FormidableFile(part, i) ==
    [filepath         |-> i,
     originalFilename |-> part.originalFilename,
     mimetype         |-> part.mimetype,
     bytes            |-> part.bytes,
     size             |-> part.size,
     readErr          |-> part.readErr,
     unlinkErr        |-> part.unlinkErr]

\* the file entries appended to the new FormData
BuildFormData(fileList) ==
    [i \in 1..Len(fileList) |->
        [fieldname    |-> "images",
         originalname |-> IF fileList[i].originalFilename # ""
                          THEN fileList[i].originalFilename
                          ELSE "file-" \o ToString(i - 1),
         mimetype     |-> IF fileList[i].mimetype # ""
                          THEN fileList[i].mimetype
                          ELSE "application/octet-stream",
         bytes        |-> fileList[i].bytes,
         size         |-> fileList[i].size,
         readErr      |-> fileList[i].readErr,
         unlinkErr    |-> fileList[i].unlinkErr]]

ErrorBody(message, error) == JsonBody(FALSE, message, FALSE, <<>>, TRUE, error)

\* an ok test that lets every status below 500 through
ResponseOk_Below500(status) == status >= 200 /\ status <= 499

\* response.ok
ResponseOk(status) == status >= 200 /\ status <= 299

\* the requests that are in flight together
ReqIds == 1..NumReqs

\* what the interleaved requests carry
ConcRequests == {<<GoodPng>>, <<BadPng>>, <<BadPng, GoodPng>>}

\* the locals of a request that has not arrived yet
IdleRequest ==
    [variant |-> "catching", pc |-> "idle", parts |-> <<>>, parsedFiles |-> <<>>,
     res |-> <<>>, bpc |-> "idle", files |-> <<>>, bRes |-> <<>>]

Init ==
    /\ reqs = [r \in ReqIds |-> IdleRequest]
    /\ tmpDir = {}
    /\ uploadsDir = {}
    /\ nextTmp = 0
    /\ nextToken = 0
    /\ created = [r \in ReqIds |-> [tmp |-> {}, uploads |-> {}]]
    /\ unlinkEvents = [tmp |-> {}, uploads |-> {}]
    /\ variant = "catching"
    /\ epc = "idle"
    /\ reqParts = <<>>
    /\ parse = "none"
    /\ tmpFiles = <<>>
    /\ parsedFiles = <<>>
    /\ formData = <<>>
    /\ tmpDisk = {}
    /\ nextCalls = 0
    /\ relay = "none"
    /\ response = <<>>
    /\ edgeRes = <<>>
    /\ unlinkLog = <<>>
    /\ bpc = "idle"
    /\ bReq = <<>>
    /\ files = <<>>
    /\ uploads = {}
    /\ validFiles = <<>>
    /\ invalidFiles = <<>>
    /\ bRes = <<>>

\* handler: a request arrives at the route; anything but POST is answered 405
HandlerEntry ==
    /\ UNCHANGED concVars
    /\ epc = "idle"
    /\ bpc = "idle"
    /\ \E v \in Variants, method \in {"POST", "GET"}, parts \in Requests :
        /\ variant' = v
        /\ reqParts' = parts
        /\ IF method # "POST"
           THEN /\ edgeRes' = <<Res(405, JsonBody(FALSE, "Method not allowed",
                                                  FALSE, <<>>, FALSE, ""))>>
                /\ epc' = "done"
           ELSE /\ edgeRes' = <<>>
                /\ epc' = "parse"
    /\ parse' = "none"
    /\ tmpFiles' = <<>>
    /\ parsedFiles' = <<>>
    /\ formData' = <<>>
    /\ tmpDisk' = {}
    /\ nextCalls' = 0
    /\ relay' = "none"
    /\ response' = <<>>
    /\ unlinkLog' = <<>>
    /\ bpc' = "idle"
    /\ bReq' = <<>>
    /\ files' = <<>>
    /\ uploads' = {}
    /\ validFiles' = <<>>
    /\ invalidFiles' = <<>>
    /\ bRes' = <<>>

\* a parse failure after which the relay callback is called all the same
FormParseFails_CallsNext ==
    /\ UNCHANGED concVars
    /\ epc = "parse"
    /\ parse' = "failed"
    /\ edgeRes' = Append(edgeRes, Res(500, ErrorBody("Failed to process form data",
                                                     "parse error")))
    /\ nextCalls' = nextCalls + 1
    /\ relay' = "pending"
    /\ epc' = "fetch"
    /\ bpc' = "receive"
    /\ UNCHANGED <<variant, unlinkLog, reqParts, tmpFiles, parsedFiles, formData, tmpDisk, response,
                   bReq, files, uploads, validFiles, invalidFiles, bRes>>

\* form.parse(req) rejects: catch (error) of createFormDataMiddleware
FormParseFails ==
    /\ UNCHANGED concVars
    /\ epc = "parse"
    /\ parse' = "failed"
    /\ edgeRes' = Append(edgeRes, Res(500, ErrorBody("Failed to process form data",
                                                     "parse error")))
    /\ epc' = "done"
    /\ UNCHANGED <<variant, unlinkLog, reqParts, tmpFiles, parsedFiles, formData, tmpDisk,
                   nextCalls, relay, response>>
    /\ UNCHANGED backendVars

\* form.parse(req) resolves but building the payload throws (reading a temp
\* file): catch (error) of createFormDataMiddleware, req.parsedFiles not yet set
AssembleFails ==
    /\ UNCHANGED concVars
    /\ epc = "parse"
    /\ Len(reqParts) > 0
    /\ parse' = "ok"
    /\ tmpFiles' = [i \in 1..Len(reqParts) |-> FormidableFile(reqParts[i], i)]
    /\ tmpDisk' = 1..Len(reqParts)
    /\ edgeRes' = Append(edgeRes, Res(500, ErrorBody("Failed to process form data",
                                                     "read error")))
    /\ epc' = "done"
    /\ UNCHANGED <<variant, unlinkLog, reqParts, parsedFiles, formData, nextCalls, relay, response>>
    /\ UNCHANGED backendVars

\* next() is called without await: cleanupTempFiles runs as soon as the
\* callback has issued the POST
FormParsed_NoAwait ==
    /\ UNCHANGED concVars
    /\ epc = "parse"
    /\ parse' = "ok"
    /\ tmpFiles' = [i \in 1..Len(reqParts) |-> FormidableFile(reqParts[i], i)]
    /\ tmpDisk' = {}
    /\ unlinkLog' = [i \in 1..Len(reqParts) |-> i]
    /\ formData' = BuildFormData(tmpFiles')
    /\ parsedFiles' = tmpFiles'
    /\ nextCalls' = nextCalls + 1
    /\ relay' = "pending"
    /\ epc' = "fetch"
    /\ bpc' = "receive"
    /\ bReq' = formData'
    /\ UNCHANGED <<variant, reqParts, response, edgeRes,
                   files, uploads, validFiles, invalidFiles, bRes>>

\* form.parse(req) resolves, the payload is built, next() is called and the
\* callback issues the POST
FormParsed ==
    /\ UNCHANGED concVars
    /\ epc = "parse"
    /\ parse' = "ok"
    /\ tmpFiles' = [i \in 1..Len(reqParts) |-> FormidableFile(reqParts[i], i)]
    /\ tmpDisk' = 1..Len(reqParts)
    /\ formData' = BuildFormData(tmpFiles')
    /\ parsedFiles' = tmpFiles'
    /\ nextCalls' = nextCalls + 1
    /\ relay' = "pending"
    /\ epc' = "fetch"
    /\ bpc' = "receive"
    /\ bReq' = formData'
    /\ UNCHANGED <<variant, unlinkLog, reqParts, response, edgeRes,
                   files, uploads, validFiles, invalidFiles, bRes>>

\* the middleware's catch answers and rethrows, so the propagating handler's
\* own catch answers a second time
ThrowInCallback_Twice(error) ==
    IF variant = "catching"
    THEN /\ edgeRes' = Append(edgeRes, Res(500, ErrorBody("Internal server error", error)))
         /\ epc' = "cleanup"
    ELSE /\ edgeRes' = edgeRes \o <<Res(500, ErrorBody("Failed to process form data", error)),
                                     Res(500, ErrorBody("Internal server error", error))>>
         /\ epc' = "done"

\* an error thrown inside the relay callback: the catching handler answers in
\* the callback's own catch and next() resolves, so the cleanup follows; the
\* propagating handler lets next() reject into the middleware's catch
ThrowInCallback(error) ==
    IF variant = "catching"
    THEN /\ edgeRes' = Append(edgeRes, Res(500, ErrorBody("Internal server error", error)))
         /\ epc' = "cleanup"
    ELSE /\ edgeRes' = Append(edgeRes, Res(500, ErrorBody("Failed to process form data", error)))
         /\ epc' = "done"

\* fetch rejects
RelayNetworkError ==
    /\ UNCHANGED concVars
    /\ epc = "fetch"
    /\ relay' = "network error"
    /\ ThrowInCallback("fetch failed")
    /\ UNCHANGED <<variant, unlinkLog, reqParts, parse, tmpFiles, parsedFiles, formData, tmpDisk,
                   nextCalls, response>>
    /\ UNCHANGED backendVars

\* fetch resolves with the backend's response; !response.ok throws
RelayResponse ==
    /\ UNCHANGED concVars
    /\ epc = "fetch"
    /\ bpc = "responded"
    /\ response' = <<bRes[1]>>
    /\ IF ResponseOk(bRes[1].status)
       THEN /\ relay' = "status ok"
            /\ epc' = "body"
            /\ UNCHANGED edgeRes
       ELSE /\ relay' = "status not ok"
            /\ ThrowInCallback("Backend responded with status: " \o ToString(bRes[1].status))
    /\ UNCHANGED <<variant, unlinkLog, reqParts, parse, tmpFiles, parsedFiles, formData, tmpDisk,
                   nextCalls>>
    /\ UNCHANGED backendVars

\* response.json() resolves and the result is sent on with status 200
ReadBody ==
    /\ UNCHANGED concVars
    /\ epc = "body"
    /\ relay' = "ok"
    /\ edgeRes' = Append(edgeRes, Res(200, response[1].body))
    /\ epc' = "cleanup"
    /\ UNCHANGED <<variant, unlinkLog, reqParts, parse, tmpFiles, parsedFiles, formData, tmpDisk,
                   nextCalls, response>>
    /\ UNCHANGED backendVars

\* response.json() rejects
ReadBodyFails ==
    /\ UNCHANGED concVars
    /\ epc = "body"
    /\ relay' = "decode error"
    /\ ThrowInCallback("invalid json")
    /\ UNCHANGED <<variant, unlinkLog, reqParts, parse, tmpFiles, parsedFiles, formData, tmpDisk,
                   nextCalls, response>>
    /\ UNCHANGED backendVars

\* cleanupTempFiles('success', req.parsedFiles): every file is unlinked, and
\* the unlink of at most one of them (bad) throws and is swallowed
CleanupTempFiles ==
    /\ UNCHANGED concVars
    /\ epc = "cleanup"
    /\ \E bad \in 0..Len(parsedFiles) :
        tmpDisk' = tmpDisk \ {parsedFiles[i].filepath : i \in (1..Len(parsedFiles)) \ {bad}}
    /\ unlinkLog' = unlinkLog \o [i \in 1..Len(parsedFiles) |-> parsedFiles[i].filepath]
    /\ epc' = "done"
    /\ UNCHANGED <<variant, reqParts, parse, tmpFiles, parsedFiles, formData,
                   nextCalls, relay, response, edgeRes>>
    /\ UNCHANGED backendVars

---------------------------------------------------------------------------
(* Backend: the request's way through multer and the route handler *)

\* a client posts its multipart body straight to /api/upload (cors() admits
\* browsers of any origin), the edge taking no part
DirectUpload ==
    /\ UNCHANGED concVars
    /\ epc = "idle"
    /\ bpc = "idle"
    /\ \E parts \in DirectRequests : bReq' = ClientBody(parts)
    /\ bpc' = "receive"
    /\ UNCHANGED <<files, uploads, validFiles, invalidFiles, bRes>>
    /\ UNCHANGED edgeVars

\* upload.array('images', 10): either every part is stored and the route
\* handler is next, or multer removes what it stored and passes its error to
\* the error handling middleware
BackendReceive ==
    /\ UNCHANGED concVars
    /\ bpc = "receive"
    /\ LET error == AdmissionError(bReq)
       IN  IF error = NoError
           THEN /\ files' = [i \in 1..Len(bReq) |-> MulterFile(bReq[i], i)]
                /\ uploads' = {MulterFile(bReq[i], i).path : i \in 1..Len(bReq)}
                /\ bpc' = "handler"
                /\ UNCHANGED bRes
           ELSE /\ bRes' = Append(bRes, ErrorMiddleware(error))
                /\ bpc' = "responded"
                /\ UNCHANGED <<files, uploads>>
    /\ UNCHANGED <<bReq, validFiles, invalidFiles>>
    /\ UNCHANGED edgeVars

\* app.post('/api/upload') handler
UploadHandler ==
    /\ UNCHANGED concVars
    /\ bpc = "handler"
    /\ IF Len(files) = 0
       THEN /\ bRes' = Append(bRes, Res(400, JsonBody(FALSE, "No files uploaded",
                                                      FALSE, <<>>, FALSE, "")))
            /\ UNCHANGED <<uploads, validFiles, invalidFiles>>
       ELSE LET acc == ValidateFrom(files, 1,
                           [valid |-> <<>>, invalid |-> <<>>, disk |-> uploads])
            IN  /\ validFiles' = acc.valid
                /\ invalidFiles' = acc.invalid
                /\ uploads' = acc.disk
                /\ bRes' = Append(bRes, UploadResponse(files, acc.valid, acc.invalid))
    /\ bpc' = "responded"
    /\ UNCHANGED <<bReq, files>>
    /\ UNCHANGED edgeVars

Next ==
    \/ HandlerEntry
    \/ FormParseFails
    \/ AssembleFails
    \/ FormParsed
    \/ RelayNetworkError
    \/ RelayResponse
    \/ ReadBody
    \/ ReadBodyFails
    \/ CleanupTempFiles
    \/ DirectUpload
    \/ BackendReceive
    \/ UploadHandler

Spec == Init /\ [][Next]_vars

---------------------------------------------------------------------------
(* Requests interleaved at their I/O boundaries.  Each request keeps its    *)
(* locals in reqs[r]; the edge's temp directory and the backend's uploads   *)
(* directory are shared.  Every await of the edge (form.parse, fetch,       *)
(* response.json) and multer's reception are separate steps; the upload     *)
(* handler and cleanupTempFiles are synchronous and run as one step.        *)

\* the paths req.parsedFiles of every request in flight, as a list kept at
\* module level would hold them
CleanupTargets_Shared(r) ==
    UNION {{reqs[q].parsedFiles[i].filepath : i \in 1..Len(reqs[q].parsedFiles)} : q \in ReqIds}

\* the paths cleanupTempFiles is given: those of the request's own req.parsedFiles
CleanupTargets(r) ==
    {reqs[r].parsedFiles[i].filepath : i \in 1..Len(reqs[r].parsedFiles)}

\* handler: a POST arrives and createFormDataMiddleware starts parsing it
ConcHandlerEntry(r) ==
    /\ UNCHANGED singleVars
    /\ reqs[r].pc = "idle"
    /\ \E v \in Variants, parts \in ConcRequests :
          reqs' = [reqs EXCEPT ![r].variant = v, ![r].parts = parts, ![r].pc = "parse"]
    /\ UNCHANGED <<tmpDir, uploadsDir, nextTmp, nextToken, created, unlinkEvents>>

\* form.parse resolves with temp files of fresh names, the payload is built,
\* next() is called and the callback issues the POST
ConcFormParsed(r) ==
    /\ UNCHANGED singleVars
    /\ reqs[r].pc = "parse"
    /\ LET n == Len(reqs[r].parts)
           captured == [i \in 1..n |-> FormidableFile(reqs[r].parts[i], nextTmp + i)]
       IN  /\ reqs' = [reqs EXCEPT ![r].parsedFiles = captured,
                                   ![r].pc = "fetch",
                                   ![r].bpc = "receive"]
           /\ tmpDir' = tmpDir \cup {captured[i].filepath : i \in 1..n}
           /\ created' = [created EXCEPT ![r].tmp = @ \cup {captured[i].filepath : i \in 1..n}]
           /\ nextTmp' = nextTmp + n
    /\ UNCHANGED <<uploadsDir, nextToken, unlinkEvents>>

\* an error thrown inside the relay callback, as ThrowInCallback
ConcThrow(r, error) ==
    IF reqs[r].variant = "catching"
    THEN reqs' = [reqs EXCEPT ![r].res = Append(@, Res(500, ErrorBody("Internal server error", error))),
                              ![r].pc = "cleanup"]
    ELSE reqs' = [reqs EXCEPT ![r].res = Append(@, Res(500, ErrorBody("Failed to process form data", error))),
                              ![r].pc = "done"]

\* fetch rejects
ConcRelayNetworkError(r) ==
    /\ UNCHANGED singleVars
    /\ reqs[r].pc = "fetch"
    /\ ConcThrow(r, "fetch failed")
    /\ UNCHANGED <<tmpDir, uploadsDir, nextTmp, nextToken, created, unlinkEvents>>

\* fetch resolves with the backend's response; !response.ok throws
ConcRelayResponse(r) ==
    /\ UNCHANGED singleVars
    /\ reqs[r].pc = "fetch"
    /\ reqs[r].bpc = "responded"
    /\ IF ResponseOk(reqs[r].bRes[1].status)
       THEN reqs' = [reqs EXCEPT ![r].pc = "body"]
       ELSE ConcThrow(r, "Backend responded with status: " \o ToString(reqs[r].bRes[1].status))
    /\ UNCHANGED <<tmpDir, uploadsDir, nextTmp, nextToken, created, unlinkEvents>>

\* response.json() resolves and the result is sent on with status 200
ConcReadBody(r) ==
    /\ UNCHANGED singleVars
    /\ reqs[r].pc = "body"
    /\ reqs' = [reqs EXCEPT ![r].res = Append(@, Res(200, reqs[r].bRes[1].body)),
                            ![r].pc = "cleanup"]
    /\ UNCHANGED <<tmpDir, uploadsDir, nextTmp, nextToken, created, unlinkEvents>>

\* response.json() rejects
ConcReadBodyFails(r) ==
    /\ UNCHANGED singleVars
    /\ reqs[r].pc = "body"
    /\ ConcThrow(r, "invalid json")
    /\ UNCHANGED <<tmpDir, uploadsDir, nextTmp, nextToken, created, unlinkEvents>>

\* cleanupTempFiles('success', req.parsedFiles); the unlink of at most one
\* path (bad) throws and is swallowed
ConcCleanupTempFiles(r) ==
    /\ UNCHANGED singleVars
    /\ reqs[r].pc = "cleanup"
    /\ \E bad \in {0} \cup CleanupTargets(r) : tmpDir' = tmpDir \ (CleanupTargets(r) \ {bad})
    /\ unlinkEvents' = [unlinkEvents EXCEPT !.tmp =
                          @ \cup {[by |-> r, name |-> p] : p \in CleanupTargets(r)}]
    /\ reqs' = [reqs EXCEPT ![r].pc = "done"]
    /\ UNCHANGED <<uploadsDir, nextTmp, nextToken, created>>

\* upload.array('images', 10) stores the relayed parts under fresh names, or
\* refuses the request and hands its error to the error handling middleware
ConcBackendReceive(r) ==
    /\ UNCHANGED singleVars
    /\ reqs[r].bpc = "receive"
    /\ LET body == BuildFormData(reqs[r].parsedFiles)
           error == AdmissionError(body)
           stored == [i \in 1..Len(body) |-> MulterFile(body[i], nextToken + i)]
       IN  IF error = NoError
           THEN /\ reqs' = [reqs EXCEPT ![r].files = stored, ![r].bpc = "handler"]
                /\ uploadsDir' = uploadsDir \cup {stored[i].path : i \in 1..Len(stored)}
                /\ created' = [created EXCEPT ![r].uploads =
                                  @ \cup {stored[i].path : i \in 1..Len(stored)}]
                /\ nextToken' = nextToken + Len(stored)
           ELSE /\ reqs' = [reqs EXCEPT ![r].bRes = Append(@, ErrorMiddleware(error)),
                                        ![r].bpc = "responded"]
                /\ UNCHANGED <<uploadsDir, created, nextToken>>
    /\ UNCHANGED <<tmpDir, nextTmp, unlinkEvents>>

\* app.post('/api/upload') handler: the loop unlinks the files it rejects
ConcUploadHandler(r) ==
    /\ UNCHANGED singleVars
    /\ reqs[r].bpc = "handler"
    /\ LET fs == reqs[r].files
           acc == ValidateFrom(fs, 1, [valid |-> <<>>, invalid |-> <<>>, disk |-> uploadsDir])
           kept == {acc.valid[j].path : j \in 1..Len(acc.valid)}
       IN  /\ uploadsDir' = acc.disk
           /\ unlinkEvents' = [unlinkEvents EXCEPT !.uploads =
                 @ \cup {[by |-> r, name |-> fs[i].path] :
                            i \in {j \in 1..Len(fs) : fs[j].path \notin kept}}]
           /\ reqs' = [reqs EXCEPT
                 ![r].bRes = Append(@, IF Len(fs) = 0
                                       THEN Res(400, JsonBody(FALSE, "No files uploaded",
                                                              FALSE, <<>>, FALSE, ""))
                                       ELSE UploadResponse(fs, acc.valid, acc.invalid)),
                 ![r].bpc = "responded"]
    /\ UNCHANGED <<tmpDir, nextTmp, nextToken, created>>

NextConc ==
    \/ \E r \in ReqIds : ConcHandlerEntry(r)
    \/ \E r \in ReqIds : ConcFormParsed(r)
    \/ \E r \in ReqIds : ConcRelayNetworkError(r)
    \/ \E r \in ReqIds : ConcRelayResponse(r)
    \/ \E r \in ReqIds : ConcReadBody(r)
    \/ \E r \in ReqIds : ConcReadBodyFails(r)
    \/ \E r \in ReqIds : ConcCleanupTempFiles(r)
    \/ \E r \in ReqIds : ConcBackendReceive(r)
    \/ \E r \in ReqIds : ConcUploadHandler(r)

SpecConc == Init /\ [][NextConc]_vars


---------------------------------------------------------------------------
(* Properties *)

\* the file has a descriptor in validFiles
Accepted(file) == \E j \in 1..Len(validFiles) : validFiles[j].filename = file.filename

\* at least 8 bytes, the first 8 being 89 50 4E 47 0D 0A 1A 0A
HasPngPrefix(bytes) ==
    /\ Len(bytes) >= 8
    /\ \A k \in 1..8 : bytes[k] = <<137, 80, 78, 71, 13, 10, 26, 10>>[k]

\* the relayed request breaks a cap of the receiving layer
ExceedsCap(parts) ==
    \/ Len(parts) > 10
    \/ \E i \in 1..Len(parts) : parts[i].size > 5 * 1024 * 1024

\* the relayed request is refused admission
AdmissionRejected(parts) ==
    \/ ExceedsCap(parts)
    \/ \E i \in 1..Len(parts) :
         parts[i].mimetype \notin {"image/png", "image/jpeg"}

\* C1: once an edge request has completed, none of the temp files the
\* multipart parser captured for it is left on disk, on the success path and
\* on every failure path alike.
C1_NoTempFileRemains ==
    epc = "done" => \A i \in 1..Len(tmpFiles) : tmpFiles[i].filepath \notin tmpDisk

\* C2: for a request whose body parsed, the edge answers 200 with the
\* backend's body exactly when the relayed POST brought back an OK status and
\* the relay call did not fail (fetch or the reading of the body rejecting);
\* in every other case it answers 500 with success = false and a body that is
\* not the backend's.
C2_RelayOutcome ==
    (parse = "ok" /\ epc \in {"cleanup", "done"}) =>
        /\ Len(edgeRes) >= 1
        /\ LET r == edgeRes[1]
               answeredOk == /\ response # <<>>
                             /\ response[1].status \in 200..299
               relayFailed == relay \in {"network error", "decode error"}
           IN  IF answeredOk /\ ~relayFailed
               THEN r.status = 200 /\ r.body = bRes[1].body
               ELSE /\ r.status = 500
                    /\ r.body.success = FALSE
                    /\ (bRes # <<>> => r.body # bRes[1].body)

\* C2 witness: a backend success has been passed through with status 200.
C2_Witness ==
    /\ epc = "done"
    /\ bRes # <<>>
    /\ bRes[1].status = 200
    /\ bRes[1].body.success
    /\ edgeRes = <<Res(200, bRes[1].body)>>

\* C3: when the validation loop has run, accepted files plus recorded
\* rejections number the files received.
C3_OneVerdictPerFile ==
    (bpc = "responded" /\ Len(files) > 0) =>
        Len(validFiles) + Len(invalidFiles) = Len(files)

\* C4: a readable file declared image/png is accepted iff it has at least 8
\* bytes and its first 8 are the PNG signature; when it is not, it is rejected
\* with the reason "Invalid PNG signature".
C4_PngSignature ==
    bpc = "responded" =>
        \A i \in 1..Len(files) :
            (files[i].mimetype = "image/png" /\ ~files[i].readErr) =>
                /\ Accepted(files[i]) <=> HasPngPrefix(files[i].bytes)
                /\ ~HasPngPrefix(files[i].bytes) =>
                       \E j \in 1..Len(invalidFiles) :
                           invalidFiles[j] = files[i].originalname \o " - Invalid PNG signature"

\* C4 witness: a PNG whose content is the signature with one byte changed has
\* been rejected for its signature.
C4_Witness ==
    /\ bpc = "responded"
    /\ \E i \in 1..Len(files), k \in 1..8 :
          /\ files[i].mimetype = "image/png"
          /\ files[i].bytes = ChangedSignature(k)
          /\ ~Accepted(files[i])
          /\ invalidFiles = <<files[i].originalname \o " - Invalid PNG signature">>

\* C5 as stated: every admitted file of a declared type other than image/png
\* is accepted by the loop.
C5_NonPngAccepted ==
    bpc = "responded" =>
        \A i \in 1..Len(files) :
            files[i].mimetype # "image/png" => Accepted(files[i])

\* C5 amended: every admitted file of a declared type other than image/png
\* that can be read is accepted by the loop, whatever its bytes.
C5_ReadableNonPngAccepted ==
    bpc = "responded" =>
        \A i \in 1..Len(files) :
            (files[i].mimetype # "image/png" /\ ~files[i].readErr) => Accepted(files[i])

\* C5 witness: an empty file declared image/jpeg has been accepted.
C5_Witness ==
    /\ bpc = "responded"
    /\ \E i \in 1..Len(files) :
          /\ files[i].mimetype = "image/jpeg"
          /\ files[i].bytes = <<>>
          /\ Accepted(files[i])

\* C6: with at least one file received by the handler, no accepted file means
\* 400, success = false and no `files`; otherwise 200, success = true and
\* `files` describes the accepted files, each once, nothing else, in the order
\* of receipt.
C6_ResponseShape ==
    (bpc = "responded" /\ Len(files) >= 1) =>
        LET r == bRes[1]
            Receipt(name) == CHOOSE i \in 1..Len(files) : files[i].filename = name
        IN  /\ Len(bRes) = 1
            /\ IF \A i \in 1..Len(files) : ~Accepted(files[i])
               THEN r.status = 400 /\ r.body.success = FALSE /\ r.body.hasFiles = FALSE
               ELSE /\ r.status = 200 /\ r.body.success = TRUE /\ r.body.hasFiles = TRUE
                    /\ \A i \in 1..Len(files) :
                          Cardinality({j \in 1..Len(r.body.files) :
                                          r.body.files[j].filename = files[i].filename})
                            = IF Accepted(files[i]) THEN 1 ELSE 0
                    /\ \A j \in 1..Len(r.body.files) :
                          /\ \E i \in 1..Len(files) :
                                /\ files[i].filename = r.body.files[j].filename
                                /\ files[i].originalname = r.body.files[j].originalName
                          /\ \A k \in 1..Len(r.body.files) :
                                j < k => Receipt(r.body.files[j].filename)
                                           < Receipt(r.body.files[k].filename)

\* C6 witness: of two files one was rejected and the response lists the other.
C6_Witness ==
    /\ bpc = "responded"
    /\ Len(files) = 2
    /\ Len(invalidFiles) = 1
    /\ bRes[1].status = 200
    /\ Len(bRes[1].body.files) = 1

\* C7: every admission rejection (count, size, declared type) is answered 400
\* with success = false.
C7_AdmissionRejectionIs400 ==
    (bpc = "responded" /\ AdmissionRejected(bReq)) =>
        bRes[1].status = 400 /\ bRes[1].body.success = FALSE

\* C8: a request over the count or size cap never reaches the validation loop
\* and its one response is a failure without `files`.
C8_CapAbortsRequest ==
    ExceedsCap(bReq) =>
        /\ bpc # "handler"
        /\ files = <<>>
        /\ validFiles = <<>>
        /\ invalidFiles = <<>>
        /\ bpc = "responded" =>
              /\ Len(bRes) = 1
              /\ bRes[1].body.success = FALSE
              /\ bRes[1].body.hasFiles = FALSE

\* C8 witness: a request of eleven files has been answered.
C8_Witness ==
    /\ bpc = "responded"
    /\ Len(bReq) = 11

\* C9: when parsing the multipart body fails the edge answers 500 with
\* success = false and the relay callback is never invoked.
C9_ParseFailure ==
    parse = "failed" =>
        /\ nextCalls = 0
        /\ bpc = "idle"
        /\ Len(edgeRes) = 1
        /\ edgeRes[1].status = 500
        /\ edgeRes[1].body.success = FALSE

\* C9 witness: the parse of a request carrying files has failed.
C9_Witness ==
    /\ parse = "failed"
    /\ epc = "done"
    /\ Len(reqParts) > 0

\* the relay callback has run to its end (answered, or thrown and been caught)
CallbackFinished == relay \in {"ok", "network error", "status not ok", "decode error"}

\* C11: for a request whose body parsed, once the request has completed the
\* removal of each captured temp file has been attempted exactly once, and the
\* caller has its one response whatever the removals did.
C11_EachRemovalAttemptedOnce ==
    (parse = "ok" /\ epc = "done") =>
        /\ \A i \in 1..Len(tmpFiles) :
              Cardinality({k \in 1..Len(unlinkLog) : unlinkLog[k] = tmpFiles[i].filepath}) = 1
        /\ Len(edgeRes) = 1

\* C12 as stated: after the upload handler has answered, the uploads
\* directory holds exactly the accepted files of the request.
C12_OnlyAcceptedRemain ==
    (bpc = "responded" /\ Len(files) >= 1) =>
        uploads = {files[i].path : i \in {j \in 1..Len(files) : Accepted(files[j])}}

\* C12 amended: after the upload handler has answered, the uploads directory
\* holds every accepted file and, of the rejected ones, exactly those whose
\* unlink failed.
C12_AcceptedAndUnremovableRemain ==
    (bpc = "responded" /\ Len(files) >= 1) =>
        \A i \in 1..Len(files) :
            files[i].path \in uploads <=> (Accepted(files[i]) \/ files[i].unlinkErr)

\* C12 witness: of two files the rejected one is gone and the accepted one is
\* still stored.
C12_Witness ==
    /\ bpc = "responded"
    /\ Len(files) = 2
    /\ \E i, j \in 1..2 :
          /\ Accepted(files[i]) /\ files[i].path \in uploads
          /\ ~Accepted(files[j]) /\ files[j].path \notin uploads

\* C14: the edge never sends a second response, and a request that has run
\* through the handler has been sent exactly one.
C14_ExactlyOneResponse ==
    /\ Len(edgeRes) <= 1
    /\ epc \in {"cleanup", "done"} => Len(edgeRes) = 1

\* C14 witness: the propagating handler has completed a request whose backend
\* answer could not be decoded.
C14_Witness ==
    /\ epc = "done"
    /\ variant = "propagating"
    /\ relay = "decode error"
    /\ Len(edgeRes) = 1

\* C15: no unlink of a captured temp file is attempted, and no captured temp
\* file is missing from disk, before the relay callback has finished and the
\* caller has been answered.
C15_CleanupAfterRelay ==
    (parse = "ok" /\ (\/ unlinkLog # <<>>
                      \/ \E i \in 1..Len(tmpFiles) : tmpFiles[i].filepath \notin tmpDisk)) =>
        /\ CallbackFinished
        /\ Len(edgeRes) = 1

\* C15 witness: the temp files of a relayed request have been removed after
\* the backend's answer was passed on.
C15_Witness ==
    /\ epc = "done"
    /\ relay = "ok"
    /\ Len(tmpFiles) > 0
    /\ Len(unlinkLog) = Len(tmpFiles)
    /\ tmpDisk = {}

\* C13: with requests interleaved, every unlink made for a request (edge
\* cleanup, backend rejection) is of a file written for that same request,
\* and the `files` of every response, the backend's and the edge's, describe
\* only files stored for that request.
C13_NoCrossRequestTouch ==
    /\ \A e \in unlinkEvents.tmp : e.name \in created[e.by].tmp
    /\ \A e \in unlinkEvents.uploads : e.name \in created[e.by].uploads
    /\ \A r \in ReqIds :
          \A k \in 1..Len(reqs[r].bRes) :
              \A j \in 1..Len(reqs[r].bRes[k].body.files) :
                  reqs[r].bRes[k].body.files[j].filename \in created[r].uploads
    /\ \A r \in ReqIds :
          \A k \in 1..Len(reqs[r].res) :
              \A j \in 1..Len(reqs[r].res[k].body.files) :
                  reqs[r].res[k].body.files[j].filename \in created[r].uploads

\* C13 witness: two requests have completed, each having unlinked temp files
\* and a rejected upload and having listed a stored file, the one that was
\* parsed first having had its files stored last.
C13_Witness ==
    \E a, b \in ReqIds :
        /\ a # b
        /\ \A r \in {a, b} :
              /\ reqs[r].pc = "done"
              /\ \E e \in unlinkEvents.tmp : e.by = r
              /\ \E e \in unlinkEvents.uploads : e.by = r
              /\ Len(reqs[r].res) = 1
              /\ Len(reqs[r].res[1].body.files) = 1
        /\ reqs[a].parsedFiles[1].filepath < reqs[b].parsedFiles[1].filepath
        /\ reqs[b].files[1].filename.token < reqs[a].files[1].filename.token

====
